---- MODULE Spec2Model ----
(***************************************************************************)
(* Model of the authenticated REST access layer of the smart-sensor        *)
(* pipeline: src/common/auth.py (OAuth2TokenManager, RateLimitHandler) and *)
(* src/common/api_client.py (APIClient.get, APIClient.paginate).           *)
(*                                                                         *)
(* Time is in seconds.  One call of requests.Session.get / .post is one    *)
(* HTTP attempt; the server's answer to it is a nondeterministic input.    *)
(* Python's None is the empty tuple <<>> and a present value x is <<x>>;   *)
(* a header value is a tuple of characters, so that int() is modelled by   *)
(* what it does to the text.                                               *)
(***************************************************************************)
EXTENDS Integers, Sequences, FiniteSets, TLC

VARIABLES
    \* ---- configuration, fixed by the constructors
    max_retries,        \* RateLimitHandler.max_retries, from APIClient(max_retries=..)
    has_auth,           \* APIClient.auth_manager is not None
    refresh_buffer,     \* OAuth2TokenManager.refresh_buffer_seconds
    \* ---- environment
    now,                \* datetime.utcnow(), seconds
    \* ---- OAuth2TokenManager
    access_token,       \* Optional[str]
    token_expires_at,   \* Optional[datetime]
    \* ---- APIClient metrics
    request_count,
    error_count,
    \* ---- one APIClient.get call in progress (its locals and what it did)
    g,
    \* ---- one APIClient.paginate generator (its locals and what it did)
    p,
    \* ---- a direct call of RateLimitHandler.handle_rate_limit
    rl,
    \* ---- what the last step did to the token manager (observation only)
    tm_obs,
    \* ---- the APIClient.post call made by the last step, if it was one
    po,
    \* ---- the mapping returned by get_metrics in the last step, if it was one
    metrics,
    \* ---- threads inside OAuth2TokenManager.get_access_token, and who wrote the fields
    th,
    \* ---- the last get_access_token call with the token session's requests counted
    tk,
    \* ---- SecretsManager: its cache, the backend's secrets, the last get_secret call
    sm,
    \* ---- one daterange generator
    dr,
    \* ---- CheckpointManager: the S3 objects and the last read or write
    ck,
    \* ---- one fetch_weather_data_for_date call of the extract job
    fw,
    \* ---- the last APIClient.get call with the client session's requests counted
    wg

vars == << max_retries, has_auth, refresh_buffer, now, access_token,
           token_expires_at, request_count, error_count, g, p, rl, tm_obs,
           po, metrics, th, tk, sm, dr, ck, fw, wg >>

\* the state outside the REST client and its token manager
aux == << th, tk, sm, dr, ck, fw, wg >>

-----------------------------------------------------------------------------
(* Bounds of the model *)

MaxRetriesBound == 2      \* max_retries ranges over 0..MaxRetriesBound
MaxRequests == 3          \* a call starts only while request_count < MaxRequests
MaxNow == 3400            \* a call starts only at a time <= MaxNow
MaxPagesBound == 2        \* max_pages ranges over 0..MaxPagesBound; next() is called
                          \* on a generator that yielded at most MaxPagesBound pages
MaxAttemptArg == 4        \* attempt numbers handed to handle_rate_limit directly
MaxFetchCalls == 2        \* fetch_weather_data_for_date calls made by the job
MaxSequences == 2         \* paginate calls made on one client
MaxThreadCalls == 2       \* get_access_token calls made by each thread
MaxRangeDays == 3         \* daterange is called with end - start <= MaxRangeDays
MaxCheckpointNow == 1     \* a checkpoint is written at a time <= MaxCheckpointNow
MaxSecretCalls == 3       \* get_secret calls made on one SecretsManager
MaxSecretNow == 86700     \* a get_secret call is made at a time <= MaxSecretNow

(* Program constants *)

DefaultExpiresIn == 3600  \* token_data.get('expires_in', 3600)
DefaultBaseDelay == 1     \* RateLimitHandler(base_delay=1.0)

(* Input sets *)

BufferChoices == {0, 300}                  \* refresh_buffer_seconds (300 is the default)
ExpiresInChoices == {<<>>, <<300>>} \* expires_in of the token response; <<>>: absent
TokenValues == {"tokA", "tokB", "tokC"}
ElapsedChoices == {0, 3000, 3300}          \* time passing between two top-level calls
BaseDelayChoices == {1, 2, 3}              \* base_delay of a stand-alone RateLimitHandler

None == <<>>
Some(x) == <<x>>
IsNone(o) == o = <<>>
Val(o) == o[1]

RECURSIVE Pow2(_)
Pow2(n) == IF n <= 0 THEN 1 ELSE 2 * Pow2(n - 1)

-----------------------------------------------------------------------------
(* int(text): Python's integer parse of a header value.  An optional sign,  *)
(* then one or more decimal digits; anything else raises ValueError.        *)

Digits == {"0", "1", "2", "3", "4", "5", "6", "7", "8", "9"}

DigitVal(c) ==
    CASE c = "0" -> 0 [] c = "1" -> 1 [] c = "2" -> 2 [] c = "3" -> 3
      [] c = "4" -> 4 [] c = "5" -> 5 [] c = "6" -> 6 [] c = "7" -> 7
      [] c = "8" -> 8 [] c = "9" -> 9

RECURSIVE DigitsVal(_)
DigitsVal(s) ==
    IF s = <<>> THEN 0
    ELSE 10 * DigitsVal(SubSeq(s, 1, Len(s) - 1)) + DigitVal(s[Len(s)])

AllDigits(s) == Len(s) > 0 /\ \A i \in 1..Len(s) : s[i] \in Digits

\* [ok |-> TRUE, val |-> n] or [ok |-> FALSE, val |-> 0] (ValueError)
int(s) ==
    IF AllDigits(s) THEN [ok |-> TRUE, val |-> DigitsVal(s)]
    ELSE IF Len(s) > 1 /\ s[1] \in {"-", "+"} /\ AllDigits(Tail(s))
         THEN [ok |-> TRUE,
               val |-> IF s[1] = "-" THEN 0 - DigitsVal(Tail(s)) ELSE DigitsVal(Tail(s))]
         ELSE [ok |-> FALSE, val |-> 0]

\* Python truthiness of an Optional[str]: None and "" are falsy.
\* TruthyHdr is for header values (tuples of characters), TruthyStr for strings.
TruthyHdr(o) == ~IsNone(o) /\ Val(o) # <<>>
TruthyStr(o) == ~IsNone(o) /\ Val(o) # ""

-----------------------------------------------------------------------------
(* OAuth2TokenManager *)

\* What the token endpoint answers to one exchange (session.post + json()).
\* The endpoint issues a token other than the one held (tok) and other than
\* the one it issued before that.
NoExchange == [kind |-> "error", token |-> "", expires_in |-> None]
NextToken(v) == IF v = "tokA" THEN "tokB" ELSE IF v = "tokB" THEN "tokC" ELSE "tokA"
FreshTokens(tok) == IF IsNone(tok) THEN {"tokA"} ELSE {NextToken(Val(tok))}
ExchangeOutcomes(tok) ==
    [kind : {"ok"}, token : FreshTokens(tok), expires_in : ExpiresInChoices]
        \cup {NoExchange}

\* (mutant) the expiry test with > in place of >=
needs_refresh_strict(tok, exp, t) ==
    IF ~TruthyStr(tok) \/ IsNone(exp) THEN TRUE
    ELSE t > Val(exp) - refresh_buffer

\* _needs_refresh, on the fields (tok, exp) at time t
needs_refresh(tok, exp, t) ==
    IF ~TruthyStr(tok) \/ IsNone(exp) THEN TRUE
    ELSE t >= Val(exp) - refresh_buffer

\* _fetch_new_token with the endpoint answering e at time t:
\* the new fields and the exception raised ("none": returned normally).
\* e.kind: "ok" a token response; "error" the request failed (RequestException);
\* "not_json" a 2xx whose body is not JSON (response.json() raises a
\* RequestException); "no_token" a JSON object without 'access_token' (KeyError
\* at line 137); "bad_expires" a JSON object whose 'expires_in' is not a number
\* (line 137 has assigned access_token when timedelta raises TypeError at 139)
fetch_new_token(tok, exp, t, e) ==
    IF e.kind = "ok"
    THEN [tok |-> Some(e.token),
          exp |-> Some(t + (IF IsNone(e.expires_in) THEN DefaultExpiresIn
                            ELSE Val(e.expires_in))),
          raised |-> "none"]
    ELSE IF e.kind = "bad_expires"
    THEN [tok |-> Some(e.token), exp |-> exp, raised |-> "TypeError"]
    ELSE IF e.kind = "no_token"
    THEN [tok |-> tok, exp |-> exp, raised |-> "KeyError"]
    ELSE [tok |-> tok, exp |-> exp, raised |-> "RuntimeError"]

\* get_access_token: refresh if needed, then return the held token
get_access_token(tok, exp, t, e) ==
    LET need == needs_refresh(tok, exp, t)
        f    == IF need THEN fetch_new_token(tok, exp, t, e)
                ELSE [tok |-> tok, exp |-> exp, raised |-> "none"]
    IN  [tok |-> f.tok, exp |-> f.exp,
         exchanges |-> IF need THEN 1 ELSE 0,
         raised |-> IF f.raised # "none" THEN f.raised
                    ELSE IF ~TruthyStr(f.tok) THEN "RuntimeError" ELSE "none",
         token |-> f.tok]

\* APIClient._get_headers: the Authorization bearer token (None without auth_manager)
get_headers(tok, exp, t, e) ==
    IF has_auth
    THEN LET r == get_access_token(tok, exp, t, e)
         IN  [r EXCEPT !.token = IF r.raised = "none" THEN r.token ELSE None]
    ELSE [tok |-> tok, exp |-> exp, exchanges |-> 0, raised |-> "none", token |-> None]

-----------------------------------------------------------------------------
(* RateLimitHandler *)

\* (mutant) the schedule starts at 2 * base_delay
wait_time_shifted(retry_after, attempt, base_delay) ==
    IF TruthyHdr(retry_after) THEN int(Val(retry_after))
    ELSE [ok |-> TRUE, val |-> Pow2(attempt + 1) * base_delay]

\* (mutant) the Retry-After header is not read
wait_time_no_header(retry_after, attempt, base_delay) ==
    [ok |-> TRUE, val |-> Pow2(attempt) * base_delay]

\* wait_time of handle_rate_limit: int(Retry-After) or 2^attempt * base_delay
wait_time(retry_after, attempt, base_delay) ==
    IF TruthyHdr(retry_after) THEN int(Val(retry_after))
    ELSE [ok |-> TRUE, val |-> Pow2(attempt) * base_delay]

\* handle_rate_limit(response, attempt): what it raised, whether it slept, how long
handle_rate_limit(status, retry_after, attempt, maxr, base_delay) ==
    IF status # 429 THEN [raised |-> "none", slept |-> FALSE, wait |-> 0]
    ELSE IF attempt >= maxr THEN [raised |-> "RuntimeError", slept |-> FALSE, wait |-> 0]
    ELSE LET w == wait_time(retry_after, attempt, base_delay)
         IN  IF ~w.ok \/ w.val < 0     \* int() or time.sleep() raises ValueError
             THEN [raised |-> "ValueError", slept |-> FALSE, wait |-> 0]
             ELSE [raised |-> "none", slept |-> TRUE, wait |-> w.val]

\* check_rate_limit_headers(response): only logs, unless int() raises
check_rate_limit_headers(remaining, limit) ==
    IF TruthyHdr(remaining) /\ TruthyHdr(limit)
    THEN LET r == int(Val(remaining))
             l == int(Val(limit))
         IN  IF ~r.ok \/ ~l.ok THEN [raised |-> "ValueError", warned |-> FALSE]
             ELSE [raised |-> "none", warned |-> 10 * r.val < l.val]
    ELSE [raised |-> "none", warned |-> FALSE]

-----------------------------------------------------------------------------
(* The server's answer to one session.get *)

NoHeaders == [remaining |-> None, limit |-> None]
RateLimitHeaderChoices ==
    { NoHeaders,
      [remaining |-> Some(<<"5">>), limit |-> Some(<<"1", "0", "0">>)],   \* under 10 %
      [remaining |-> Some(<<"x">>), limit |-> Some(<<"1", "0">>)] }       \* not a number

RetryAfterChoices == { None, Some(<<"3", "0", "0">>), Some(<<"s", "o", "o", "n">>) }

\* Retry-After values handed to a stand-alone handler
RetryAfterValues ==
    { None, Some(<<>>), Some(<<"0">>), Some(<<"5">>), Some(<<"1", "2">>),
      Some(<<"1", ".", "5">>), Some(<<"-", "3">>), Some(<<"s", "o", "o", "n">>) }

CursorChoices == { None, Some(""), Some("c1"), Some("c2") }
HasMoreChoices == { None, Some(TRUE), Some(FALSE) }     \* None: the field is absent
Pages == [next_cursor : CursorChoices, has_more : HasMoreChoices, empty : BOOLEAN]
NoBody == [next_cursor |-> None, has_more |-> None, empty |-> TRUE]

Resp(status, ra, h, body) ==
    [kind |-> "resp", status |-> status, retry_after |-> ra,
     remaining |-> h.remaining, limit |-> h.limit, body |-> body]

Failure(k) ==
    [kind |-> k, status |-> 0, retry_after |-> None, remaining |-> None,
     limit |-> None, body |-> NoBody]

\* Bodies of the 2xx answers: any page for a paginate request, two for a plain get
BodiesFor(caller) ==
    IF caller = "paginate" THEN Pages
    ELSE { NoBody, [next_cursor |-> Some("c1"), has_more |-> Some(TRUE), empty |-> FALSE] }

\* Answers to a plain get: every kind of failure, status and header
\* Answers to a page request: every page, and one failure of each kind of handling
GetOutcomes(caller) ==
    IF caller = "paginate"
    THEN { Failure("timeout"), Resp(404, None, NoHeaders, NoBody),
           Resp(429, None, NoHeaders, NoBody) }
         \cup { Resp(200, None, NoHeaders, b) : b \in BodiesFor(caller) }
    ELSE { Failure(k) : k \in {"timeout", "connerr"} }
         \cup { Resp(200, None, h, b) : h \in RateLimitHeaderChoices, b \in BodiesFor(caller) }
         \cup { Resp(st, None, h, NoBody) : st \in {401, 404, 500},
                                            h \in RateLimitHeaderChoices }
         \cup { Resp(429, ra, NoHeaders, NoBody) : ra \in RetryAfterChoices }

-----------------------------------------------------------------------------
(* Observation of the token manager: whether the token was stale, in the    *)
(* sense now >= expiresAt - refreshBuffer or unset, when it was asked.      *)

TokenStale(tok, exp, t) ==
    IsNone(tok) \/ IsNone(exp) \/ t >= Val(exp) - refresh_buffer

NoObs == [gat |-> "none", gat_stale |-> FALSE, forced |-> FALSE, forced_stale |-> FALSE]

\* get_access_token was called on (tok, exp) at t and did `n` exchanges
ObsGat(obs, tok, exp, t, n) ==
    [obs EXCEPT !.gat = IF n > 0 THEN "exchanged" ELSE "reused",
                !.gat_stale = TokenStale(tok, exp, t)]

-----------------------------------------------------------------------------
(* APIClient.get *)

NoLast == [kind |-> "none", status |-> 0]

GIdle ==
    [pc |-> "idle", caller |-> "direct", retry |-> TRUE, attempt |-> 0,
     max_attempts |-> 0, headers |-> None, requests |-> 0, sleeps |-> 0,
     last_wait |-> 0, iter_slept |-> FALSE, exch |-> 0, exch401 |-> 0, last |-> NoLast, prev |-> NoLast,
     err |-> "none", body |-> NoBody, errs |-> 0]

\* (mutant) the counter goes down
count_error_down(ec) == ec - 1

\* self.error_count += 1
count_error(ec) == ec + 1

\* (mutant) the request is not counted
count_request_skipped(rc) == rc

\* self.request_count += 1
count_request(rc) == rc + 1

\* max_attempts = self.rate_limit_handler.max_retries if retry_on_rate_limit else 1
max_attempts_of(retry) == IF retry THEN max_retries ELSE 1

\* the while test: attempt < max_attempts, else raise RuntimeError("Failed after ...")
while_test(gs) ==
    IF gs.attempt < gs.max_attempts THEN [gs EXCEPT !.pc = "loop"]
    ELSE [gs EXCEPT !.pc = "raised", !.err = "FailedAfterAttempts"]

\* (mutant) continue without attempt += 1
next_attempt_no_increment(gs) == while_test(gs)

\* attempt += 1; continue
next_attempt(gs) == while_test([gs EXCEPT !.attempt = gs.attempt + 1])

\* except Timeout: raise on the last attempt, else attempt += 1
on_timeout(gs) ==
    IF gs.attempt >= gs.max_attempts - 1
    THEN [gs EXCEPT !.pc = "raised", !.err = "Timeout"]
    ELSE next_attempt(gs)

\* the response goes to the rate-limit branch
is_rate_limited(status, retry) == status = 429 /\ retry

\* the response goes to the token-refresh branch
is_auth_error(status) == status = 401 /\ has_auth

\* (mutant) only server errors raise
raises_for_status_5xx(status) == status >= 500 /\ status < 600

\* response.raise_for_status(): HTTPError for 4xx and 5xx
raises_for_status(status) == status >= 400 /\ status < 600

\* (mutant) the headers built at the start of get are kept
rebuilt_headers_kept(old, h) == old

\* line 156: headers = self._get_headers(); nothing is assigned when it raises
rebuilt_headers(old, h) == IF h.raised = "none" THEN h.token ELSE old

\* lines 127-131: url, headers, attempt = 0, max_attempts, first while test
begin_get(caller, retry, tok, exp, t, e) ==
    LET h  == get_headers(tok, exp, t, e)
        g0 == [GIdle EXCEPT !.caller = caller, !.retry = retry,
                            !.max_attempts = max_attempts_of(retry),
                            !.headers = h.token, !.exch = h.exchanges]
    IN  [g |-> IF h.raised # "none"
               THEN [g0 EXCEPT !.pc = "raised", !.err = "TokenFetchFailed"]
               ELSE while_test(g0),
         tok |-> h.tok, exp |-> h.exp,
         obs |-> IF has_auth THEN ObsGat(NoObs, tok, exp, t, h.exchanges) ELSE NoObs]

\* one iteration of the while loop (lines 133-185) with the server answering o
\* and the token endpoint answering e1, e2 to the exchanges the iteration makes
get_iteration(gs, tok, exp, t, o, e1, e2) ==
    LET g1 == [gs EXCEPT !.requests = gs.requests + 1,
                         !.prev = gs.last,
                         !.last = [kind |-> o.kind, status |-> o.status],
                         !.exch401 = 0,
                         !.iter_slept = FALSE]
        same(gx, derr) == [g |-> [gx EXCEPT !.errs = gs.errs + derr],
                           tok |-> tok, exp |-> exp, now |-> t,
                           derr |-> derr, obs |-> NoObs]
    IN
    IF o.kind = "timeout" THEN same(on_timeout(g1), 1)
    ELSE IF o.kind = "connerr"
    THEN same([g1 EXCEPT !.pc = "raised", !.err = "ConnectionError"], 1)
    ELSE IF is_rate_limited(o.status, gs.retry)
    THEN LET r == handle_rate_limit(o.status, o.retry_after, gs.attempt,
                                    max_retries, DefaultBaseDelay)
         IN  IF r.raised # "none"
             THEN same([g1 EXCEPT !.pc = "raised", !.err = r.raised], 0)
             ELSE [g |-> next_attempt([g1 EXCEPT !.sleeps = gs.sleeps + 1,
                                                 !.last_wait = r.wait,
                                                 !.iter_slept = TRUE]),
                   tok |-> tok, exp |-> exp, now |-> t + r.wait,
                   derr |-> 0, obs |-> NoObs]
    ELSE IF is_auth_error(o.status)
    THEN LET f    == fetch_new_token(tok, exp, t, e1)
             obs1 == [NoObs EXCEPT !.forced = TRUE,
                                   !.forced_stale = TokenStale(tok, exp, t)]
         IN  IF f.raised # "none"
             THEN [g |-> [g1 EXCEPT !.pc = "raised", !.err = "TokenFetchFailed",
                                    !.exch = gs.exch + 1, !.exch401 = 1],
                   tok |-> f.tok, exp |-> f.exp, now |-> t, derr |-> 0, obs |-> obs1]
             ELSE LET h  == get_headers(f.tok, f.exp, t, e2)
                      g2 == [g1 EXCEPT !.exch = gs.exch + 1 + h.exchanges,
                                       !.exch401 = 1 + h.exchanges,
                                       !.headers = rebuilt_headers(gs.headers, h)]
                  IN  [g |-> IF h.raised # "none"
                             THEN [g2 EXCEPT !.pc = "raised", !.err = "TokenFetchFailed"]
                             ELSE next_attempt(g2),
                       tok |-> h.tok, exp |-> h.exp, now |-> t, derr |-> 0,
                       obs |-> ObsGat(obs1, f.tok, f.exp, t, h.exchanges)]
    ELSE LET c == check_rate_limit_headers(o.remaining, o.limit)
         IN  IF c.raised # "none"
             THEN same([g1 EXCEPT !.pc = "raised", !.err = c.raised], 0)
             ELSE IF raises_for_status(o.status)
             THEN same([g1 EXCEPT !.pc = "raised", !.err = "HTTPError"], 1)
             ELSE same([g1 EXCEPT !.pc = "returned", !.body = o.body], 0)

-----------------------------------------------------------------------------
(* APIClient.paginate: a generator, advanced by the consumer's next()       *)

MaxPagesChoices == {None} \cup { Some(k) : k \in 0..MaxPagesBound }

DefaultPageSize == 100    \* page_size: int = 100
PageSizeChoices == {DefaultPageSize, 50}

\* The params argument: None, an empty mapping, or the caller's own non-empty
\* mapping (one object, handed over again by a later call)
ParamsArgs == {"none", "empty", "dict"}

\* params_cursor, params_limit: params['cursor'], params['limit'] of the mapping
\* the generator works on; caller_cursor, caller_limit: the same entries of the
\* caller's own mapping; seq: the paginate calls made so far
PIdle ==
    [pc |-> "none", started |-> FALSE, max_pages |-> None, page_count |-> 0,
     next_cursor |-> None, params_cursor |-> None,
     yielded |-> 0, gets |-> 0, last |-> NoBody,
     prefix_open |-> TRUE, all_cursor |-> TRUE, reason |-> "none",
     page_size |-> DefaultPageSize, params_limit |-> None, arg |-> "none",
     caller_cursor |-> None, caller_limit |-> None, seq |-> 0]

\* params = params or {}: the caller's mapping is used only if it is not empty
params_shared(arg) == arg = "dict"

\* response_data.get('has_more', False)
has_more_of(page) == IF IsNone(page.has_more) THEN FALSE ELSE Val(page.has_more)

\* (mutant) has_more is not looked at
stop_natural_cursor_only(next_cursor, has_more) == ~TruthyStr(next_cursor)

\* if not next_cursor and not has_more: break
stop_natural(next_cursor, has_more) == ~TruthyStr(next_cursor) /\ ~has_more

\* (mutant) > in place of >=
stop_max_strict(max_pages, page_count) ==
    ~IsNone(max_pages) /\ Val(max_pages) # 0 /\ page_count > Val(max_pages)

\* if max_pages and page_count >= max_pages: break
stop_max(max_pages, page_count) ==
    ~IsNone(max_pages) /\ Val(max_pages) # 0 /\ page_count >= Val(max_pages)

\* A page that ends the sequence naturally: no cursor token and has_more not true
PageIsLast(page) == ~TruthyStr(page.next_cursor) /\ page.has_more # Some(TRUE)

\* (mutant) the max_pages test comes before the natural-end test
pag_resume_max_first(ps) ==
    LET pc1 == ps.page_count + 1
        nc  == ps.last.next_cursor
        hm  == has_more_of(ps.last)
        p1  == [ps EXCEPT !.page_count = pc1, !.next_cursor = nc]
    IN  IF stop_max(ps.max_pages, pc1)
        THEN [p1 EXCEPT !.pc = "ended", !.reason = "truncated"]
        ELSE IF stop_natural(nc, hm) THEN [p1 EXCEPT !.pc = "ended", !.reason = "exhausted"]
        ELSE [p1 EXCEPT !.pc = "looptop"]

\* (mutant) a page with an empty payload ends the sequence
pag_resume_stop_on_empty(ps) ==
    LET pc1 == ps.page_count + 1
        nc  == ps.last.next_cursor
        hm  == has_more_of(ps.last)
        p1  == [ps EXCEPT !.page_count = pc1, !.next_cursor = nc]
    IN  IF ps.last.empty \/ stop_natural(nc, hm)
        THEN [p1 EXCEPT !.pc = "ended", !.reason = "exhausted"]
        ELSE IF stop_max(ps.max_pages, pc1)
        THEN [p1 EXCEPT !.pc = "ended", !.reason = "truncated"]
        ELSE [p1 EXCEPT !.pc = "looptop"]

\* lines 272-284: the generator resumes after its yield
pag_resume(ps) ==
    LET pc1 == ps.page_count + 1
        nc  == ps.last.next_cursor
        hm  == has_more_of(ps.last)
        p1  == [ps EXCEPT !.page_count = pc1, !.next_cursor = nc]
    IN  IF stop_natural(nc, hm) THEN [p1 EXCEPT !.pc = "ended", !.reason = "exhausted"]
        ELSE IF stop_max(ps.max_pages, pc1)
        THEN [p1 EXCEPT !.pc = "ended", !.reason = "truncated"]
        ELSE [p1 EXCEPT !.pc = "looptop"]

\* lines 255-259 on the first next(), lines 272-284 on a later one
pag_advance(ps) ==
    IF ~ps.started
    THEN [ps EXCEPT !.started = TRUE, !.page_count = 0, !.next_cursor = None,
                    !.params_cursor = IF params_shared(ps.arg) THEN ps.caller_cursor
                                      ELSE None,
                    !.params_limit = Some(ps.page_size),
                    !.caller_limit = IF params_shared(ps.arg) THEN Some(ps.page_size)
                                     ELSE ps.caller_limit,
                    !.pc = "looptop"]
    ELSE pag_resume(ps)

\* lines 262-267: put the cursor into params and call self.get
pag_looptop(ps) ==
    [ps EXCEPT !.params_cursor = IF TruthyStr(ps.next_cursor) THEN ps.next_cursor
                                 ELSE ps.params_cursor,
               !.caller_cursor = IF TruthyStr(ps.next_cursor) /\ params_shared(ps.arg)
                                 THEN ps.next_cursor ELSE ps.caller_cursor,
               !.gets = ps.gets + 1, !.pc = "fetching"]

\* (mutant) the generator asks for the following page before it yields
pag_after_get_eager(ps, gs) ==
    IF gs.pc = "returned"
    THEN [ps EXCEPT !.pc = "suspended", !.yielded = ps.yielded + 1, !.last = gs.body,
                    !.gets = ps.gets + 1,
                    !.prefix_open = ps.prefix_open
                                    /\ (ps.yielded = 0 \/ ~PageIsLast(ps.last)),
                    !.all_cursor = ps.all_cursor /\ TruthyStr(gs.body.next_cursor)]
    ELSE IF gs.pc = "raised" THEN [ps EXCEPT !.pc = "raised"]
    ELSE ps

\* self.get came back to the generator: yield response_data, or let the error through
pag_after_get(ps, gs) ==
    IF gs.pc = "returned"
    THEN [ps EXCEPT !.pc = "suspended", !.yielded = ps.yielded + 1, !.last = gs.body,
                    !.prefix_open = ps.prefix_open
                                    /\ (ps.yielded = 0 \/ ~PageIsLast(ps.last)),
                    !.all_cursor = ps.all_cursor /\ TruthyStr(gs.body.next_cursor)]
    ELSE IF gs.pc = "raised" THEN [ps EXCEPT !.pc = "raised"]
    ELSE ps

-----------------------------------------------------------------------------
(* APIClient.post and APIClient.get_metrics *)

PoIdle ==
    [pc |-> "none", requests |-> 0, wait |-> 0, exch |-> 0, errs |-> 0, err |-> "none", last |-> NoLast, body |-> NoBody]

\* Answers to a post: every kind of failure and status
PostOutcomes ==
    { Failure(k) : k \in {"timeout", "connerr"} }
        \cup { Resp(st, None, NoHeaders, NoBody) : st \in {200, 401, 404, 500} }
        \cup { Resp(429, ra, NoHeaders, NoBody) : ra \in {None, Some(<<"7">>)} }

\* (mutant) a 429 is waited out and the request sent once more
post_retrying(tok, exp, t, o, e) ==
    LET h    == get_headers(tok, exp, t, e)
        p0   == [PoIdle EXCEPT !.exch = h.exchanges]
        sent == [p0 EXCEPT !.requests = 1,
                           !.last = [kind |-> o.kind, status |-> o.status]]
        failed(k) == [sent EXCEPT !.pc = "raised", !.err = k, !.errs = 1]
    IN  [po |-> IF h.raised # "none"
                THEN [p0 EXCEPT !.pc = "raised", !.err = "TokenFetchFailed"]
                ELSE IF o.kind = "timeout" THEN failed("Timeout")
                ELSE IF o.kind = "connerr" THEN failed("ConnectionError")
                ELSE IF o.status = 429
                THEN [failed("HTTPError") EXCEPT !.requests = 2, !.wait = 1]
                ELSE IF raises_for_status(o.status) THEN failed("HTTPError")
                ELSE [sent EXCEPT !.pc = "returned", !.body = o.body],
         tok |-> h.tok, exp |-> h.exp,
         now |-> IF h.raised = "none" /\ o.kind = "resp" /\ o.status = 429
                 THEN t + 1 ELSE t]

\* post (lines 203-225) at time t, the server answering o and the token endpoint e
post(tok, exp, t, o, e) ==
    LET h    == get_headers(tok, exp, t, e)
        p0   == [PoIdle EXCEPT !.exch = h.exchanges]
        sent == [p0 EXCEPT !.requests = 1,
                           !.last = [kind |-> o.kind, status |-> o.status]]
        failed(k) == [sent EXCEPT !.pc = "raised", !.err = k, !.errs = 1]
    IN  [po |-> IF h.raised # "none"
                THEN [p0 EXCEPT !.pc = "raised", !.err = "TokenFetchFailed"]
                ELSE IF o.kind = "timeout" THEN failed("Timeout")
                ELSE IF o.kind = "connerr" THEN failed("ConnectionError")
                ELSE IF raises_for_status(o.status) THEN failed("HTTPError")
                ELSE [sent EXCEPT !.pc = "returned", !.body = o.body],
         tok |-> h.tok, exp |-> h.exp, now |-> t]

NoReport == <<>>

\* get_metrics: error_rate is the quotient error_count / request_count, kept as
\* numerator and denominator, and 0 when no request was made
get_metrics(rc, ec) ==
    [request_count |-> rc, error_count |-> ec,
     error_rate |-> IF rc > 0 THEN [num |-> ec, den |-> rc] ELSE [num |-> 0, den |-> 1]]

-----------------------------------------------------------------------------
(* OAuth2TokenManager used by two threads.  A thread is switched between two  *)
(* statements; _needs_refresh reads both fields in one step.                  *)

Threads == {1, 2}

\* pc: "idle", "check" (line 93), "inflight" (session.post sent, lines 124-132),
\* "expiry" (line 137 done, line 139 not yet), "ret" (lines 97-100)
\* xid: the number of the exchange the thread is storing
ThreadIdle == [pc |-> "idle", expires_in |-> None, xid |-> 0, calls |-> 0,
               seen_torn |-> FALSE, result |-> "none"]

\* wtok, wexp: the number of the exchange that wrote access_token and
\* token_expires_at (0: __init__); n: exchanges answered so far
ThIdle == [t |-> [i \in Threads |-> ThreadIdle], wtok |-> 0, wexp |-> 0, n |-> 0]

TkIdle == [called |-> FALSE]
-----------------------------------------------------------------------------
(* SecretsManager.get_secret (utils.py) *)

SecretNames == {"s1", "s2"}
SecretValues == {"v1", "v2"}
SecondsPerDay == 86400     \* timedelta.seconds leaves the days out
DefaultMaxAge == 300       \* max_age_seconds: int = 300
MaxAgeChoices == {0, DefaultMaxAge, 90000}
SecretElapsedChoices == {0, 299, 300, 86400}

\* (now - fetched_at).seconds for a difference of d seconds
timedelta_seconds(d) == d % SecondsPerDay

\* (mutant) the cache is not consulted
cache_hit_never(cache, name, t, max_age) == FALSE

\* lines 130-134: the name is cached and cache_age < max_age_seconds
cache_hit(cache, name, t, max_age) ==
    /\ ~IsNone(cache[name])
    /\ timedelta_seconds(t - Val(cache[name]).fetched_at) < max_age

\* get_secret(name, max_age) at time t; answer: what get_secret_value gives,
\* Some(value) or None for a ClientError
get_secret(cache, name, t, max_age, answer) ==
    IF cache_hit(cache, name, t, max_age)
    THEN [cache |-> cache, value |-> Some(Val(cache[name]).value),
          backend_calls |-> 0, raised |-> "none"]
    ELSE IF ~IsNone(answer)
    THEN [cache |-> [cache EXCEPT ![name] = Some([value |-> Val(answer),
                                                   fetched_at |-> t])],
          value |-> answer, backend_calls |-> 1, raised |-> "none"]
    ELSE [cache |-> cache, value |-> None, backend_calls |-> 1,
          raised |-> "ClientError"]

NoSecretCall ==
    [name |-> "", max_age |-> 0, at |-> 0, value |-> None, backend_calls |-> 0,
     raised |-> "none"]

\* backend: the secret values held by AWS Secrets Manager
SmIdle ==
    [cache |-> [n \in SecretNames |-> None], backend |-> [n \in SecretNames |-> "v1"],
     calls |-> 0, last |-> NoSecretCall]

-----------------------------------------------------------------------------
(* daterange (utils.py, and the copy in extract_job.py) *)

\* Dates are proleptic Gregorian ordinals: date.min is 1, date.max is DateMax
DateMin == 1
DateMax == 3652059
DateChoices == (DateMin .. (DateMin + MaxRangeDays))
                 \cup ((DateMax - MaxRangeDays) .. DateMax)

\* current <= end
dr_loop_test(current, end) == current <= end

\* pc: "none" no generator; "created" not started; "suspended" at the yield;
\* "ended" StopIteration; "raised" OverflowError.  out: the dates yielded
DrIdle == [pc |-> "none", start |-> 0, end |-> 0, current |-> 0, out |-> << >>]

\* The loop head, reached with the given value of current
dr_loop(d, current) ==
    IF dr_loop_test(current, d.end)
    THEN [d EXCEPT !.pc = "suspended", !.current = current,
                   !.out = Append(d.out, current)]
    ELSE [d EXCEPT !.pc = "ended", !.current = current]

\* next() of the generator: from the start, current = start; from the yield,
\* current += timedelta(days=1), which raises OverflowError past date.max
dr_next(d) ==
    IF d.pc = "created" THEN dr_loop(d, d.start)
    ELSE IF d.current + 1 > DateMax THEN [d EXCEPT !.pc = "raised"]
    ELSE dr_loop(d, d.current + 1)

-----------------------------------------------------------------------------
(* CheckpointManager (utils.py) *)

CheckpointKeys == {"k1", "k2"}
UpdatedAtKey == "_checkpoint_updated_at"

\* A mapping is a set of << key, value >> entries; a key is a str or an int
StrKey(k) == [t |-> "str", v |-> k]
IntKey(k) == [t |-> "int", v |-> k]
CheckpointData ==
    { { << StrKey("last_date"), "d1" >> },
      { << IntKey("7"), "d2" >> },
      { << StrKey("last_date"), "d2" >>, << StrKey(UpdatedAtKey), "earlier" >> } }

\* datetime.utcnow().isoformat()
isoformat(t) == ToString(t)

\* data['_checkpoint_updated_at'] = ...
stamp(data, t) ==
    { e \in data : e[1] # StrKey(UpdatedAtKey) }
        \cup { << StrKey(UpdatedAtKey), isoformat(t) >> }

\* json.dumps: the keys of a JSON object are strings
json_dumps(data) == [kind |-> "json", text |-> { << e[1].v, e[2] >> : e \in data }]

\* json.loads of a JSON body
json_loads(body) == { << StrKey(e[1]), e[2] >> : e \in body.text }

\* An object that is not a JSON document
CorruptBody == [kind |-> "corrupt", text |-> {}]

\* What the S3 client does with a request: for get_object "object" (the body)
\* or "NoSuchKey", for put_object "stored"; for both "ClientError" or
\* "BotoCoreError" (a failure that is not a ClientError, e.g. no connection)
GetObjectAnswers(store, key) ==
    (IF IsNone(store[key]) THEN {"NoSuchKey"} ELSE {"object"})
        \cup {"ClientError", "BotoCoreError"}
PutObjectAnswers == {"stored", "ClientError", "BotoCoreError"}

NoCheckpointOp ==
    [op |-> "none", key |-> "", answer |-> "", returned |-> "none", mapping |-> {},
     data |-> {}, before |-> None, gets |-> 0, puts |-> 0, raised |-> "none"]

\* (mutant) a ClientError of get_object is not caught
read_checkpoint_raising(store, key, answer) ==
    [NoCheckpointOp EXCEPT !.op = "read", !.key = key, !.answer = answer,
        !.before = store[key], !.gets = 1,
        !.returned = IF answer = "object" /\ Val(store[key]).kind = "json"
                     THEN "mapping"
                     ELSE IF answer = "NoSuchKey" THEN "None" ELSE "none",
        !.mapping = IF answer = "object" /\ Val(store[key]).kind = "json"
                    THEN json_loads(Val(store[key])) ELSE {},
        !.raised = IF answer = "object" /\ Val(store[key]).kind # "json"
                   THEN "JSONDecodeError"
                   ELSE IF answer \in {"ClientError", "BotoCoreError"}
                   THEN answer ELSE "none"]

\* read_checkpoint(checkpoint_key): one get_object; the parsed body is
\* returned, NoSuchKey and ClientError give None, anything else propagates
read_checkpoint(store, key, answer) ==
    [NoCheckpointOp EXCEPT !.op = "read", !.key = key, !.answer = answer,
        !.before = store[key], !.gets = 1,
        !.returned = IF answer = "object" /\ Val(store[key]).kind = "json"
                     THEN "mapping"
                     ELSE IF answer \in {"NoSuchKey", "ClientError"}
                     THEN "None" ELSE "none",
        !.mapping = IF answer = "object" /\ Val(store[key]).kind = "json"
                    THEN json_loads(Val(store[key])) ELSE {},
        !.raised = IF answer = "object" /\ Val(store[key]).kind # "json"
                   THEN "JSONDecodeError"
                   ELSE IF answer = "BotoCoreError" THEN answer ELSE "none"]

\* write_checkpoint(checkpoint_key, data) at time t: the metadata is added, one
\* put_object; True when it succeeded, False on ClientError
write_checkpoint(store, key, data, t, answer) ==
    [NoCheckpointOp EXCEPT !.op = "write", !.key = key, !.answer = answer,
        !.before = store[key], !.data = stamp(data, t), !.puts = 1,
        !.returned = IF answer = "stored" THEN "True"
                     ELSE IF answer = "ClientError" THEN "False" ELSE "none",
        !.raised = IF answer = "BotoCoreError" THEN answer ELSE "none"]

\* store: the objects of the bucket under checkpoint_prefix
CkIdle == [store |-> [k \in CheckpointKeys |-> None], last |-> NoCheckpointOp]


-----------------------------------------------------------------------------
(* fetch_weather_data_for_date (extract_job.py) *)

FetchMaxRetries == 3       \* max_retries = 3
DefaultRetryAfter == 60    \* response.headers.get('Retry-After', 60)

\* The server's answer to one requests.get
FetchOutcomes ==
    { Failure(k) : k \in {"timeout", "connerr"} }
        \cup { Resp(st, None, NoHeaders, NoBody) : st \in {200, 400, 404, 500, 503} }
        \cup { Resp(429, ra, NoHeaders, NoBody) :
                 ra \in { None, Some(<<"5">>), Some(<<"s", "o", "o", "n">>) } }

\* pc: "idle", "loop", "returned" (a row, or None when row is FALSE), "raised"
FwIdle ==
    [pc |-> "idle", retry_count |-> 0, requests |-> 0, sleeps |-> 0, row |-> FALSE,
     last |-> NoLast, first |-> NoLast, err |-> "none", calls |-> 0]

\* int(response.headers.get('Retry-After', 60))
fetch_wait_time(retry_after) ==
    IF IsNone(retry_after) THEN [ok |-> TRUE, val |-> DefaultRetryAfter]
    ELSE int(Val(retry_after))

\* the while test: retry_count < max_retries, else return None (line 205)
fetch_while_test(f) ==
    IF f.retry_count < FetchMaxRetries THEN [f EXCEPT !.pc = "loop"]
    ELSE [f EXCEPT !.pc = "returned", !.row = FALSE]

\* except Timeout / except RequestException: retry_count += 1, return None
\* when retry_count >= max_retries
fetch_on_request_error(f) ==
    LET f1 == [f EXCEPT !.retry_count = f.retry_count + 1]
    IN  IF f1.retry_count >= FetchMaxRetries
        THEN [f1 EXCEPT !.pc = "returned", !.row = FALSE]
        ELSE fetch_while_test(f1)

\* one iteration of the loop (lines 160-203) with the server answering o
fetch_iteration(f, t, o) ==
    LET f1 == [f EXCEPT !.requests = f.requests + 1,
                        !.last = [kind |-> o.kind, status |-> o.status],
                        !.first = IF f.requests = 0
                                  THEN [kind |-> o.kind, status |-> o.status]
                                  ELSE f.first]
    IN  IF o.kind # "resp" THEN [f |-> fetch_on_request_error(f1), now |-> t]
        ELSE IF o.status = 429
        THEN LET w == fetch_wait_time(o.retry_after)
             IN  IF ~w.ok \/ w.val < 0
                 THEN [f |-> [f1 EXCEPT !.pc = "raised", !.err = "ValueError"], now |-> t]
                 ELSE [f |-> fetch_while_test([f1 EXCEPT !.sleeps = f.sleeps + 1,
                                                  !.retry_count = f.retry_count + 1]),
                       now |-> t + w.val]
        ELSE IF raises_for_status(o.status)
        THEN [f |-> fetch_on_request_error(f1), now |-> t]
        ELSE [f |-> [f1 EXCEPT !.pc = "returned", !.row = TRUE], now |-> t]

-----------------------------------------------------------------------------
(* The session of the APIClient.  _create_session mounts an adapter with      *)
(* Retry(total=3, backoff_factor=1, status_forcelist=[429, 500, 502, 503,     *)
(* 504], allowed_methods=["HEAD", "GET", "OPTIONS"]): "Retry strategy for     *)
(* transient errors".                                                         *)

ClientRetryTotal == 3
ClientStatusForcelist == {429, 500, 502, 503, 504}
ClientAllowedMethods == {"HEAD", "GET", "OPTIONS"}

\* What the server answers to one sending of the request
WireAnswers ==
    { Resp(st, None, NoHeaders, NoBody) : st \in {200, 404, 429, 503} }
        \cup { Failure("connerr") }

\* the adapter sends the request again after this answer
client_retry_applies(method, a) ==
    /\ method \in ClientAllowedMethods
    /\ a.kind = "connerr" \/ a.status \in ClientStatusForcelist

\* self.session.get(...): the k-th sending is answered answers[k]; the adapter
\* sends again, after its backoff wait, while the answer asks for it and fewer
\* than total retries were made; then it gives up (exhausted)
RECURSIVE client_session_request(_, _, _)
client_session_request(method, answers, k) ==
    IF client_retry_applies(method, answers[k]) /\ k <= ClientRetryTotal
    THEN client_session_request(method, answers, k + 1)
    ELSE [sends |-> k, answer |-> answers[k],
          exhausted |-> client_retry_applies(method, answers[k])]


WgIdle ==
    [called |-> FALSE, retry |-> TRUE, sends |-> 0, backoffs |-> 0, pc |-> "none",
     err |-> "none", last |-> NoLast, session_gets |-> 0]

-----------------------------------------------------------------------------
(* Actions *)

RlIdle == [called |-> FALSE]

Init ==
    /\ max_retries \in 0..MaxRetriesBound
    /\ has_auth \in BOOLEAN
    /\ refresh_buffer \in IF has_auth THEN BufferChoices ELSE {0}
    /\ now = 0
    /\ access_token = None
    /\ token_expires_at = None
    /\ request_count = 0
    /\ error_count = 0
    /\ g = GIdle
    /\ p = PIdle
    /\ rl = RlIdle
    /\ tm_obs = NoObs
    /\ po = PoIdle
    /\ metrics = NoReport
    /\ th = ThIdle
    /\ tk = TkIdle
    /\ sm = SmIdle
    /\ dr = DrIdle
    /\ ck = CkIdle
    /\ fw = FwIdle
    /\ wg = WgIdle

Config == << max_retries, has_auth, refresh_buffer >>

\* The token endpoint is asked at the start of get only if the token needs a refresh
StartExchange(t) ==
    IF has_auth /\ needs_refresh(access_token, token_expires_at, t)
    THEN ExchangeOutcomes(access_token) ELSE {NoExchange}

\* The caller calls client.get(endpoint, params, retry_on_rate_limit), d seconds
\* after the previous call: everything up to the first iteration of the loop.
DirectGet ==
    /\ request_count < MaxRequests
    /\ g.pc # "loop"
    /\ \E d \in { x \in ElapsedChoices : now + x <= MaxNow }, retry \in BOOLEAN :
       \E e \in StartExchange(now + d) :
         LET b == begin_get("direct", retry, access_token, token_expires_at, now + d, e)
         IN  /\ now' = now + d
             /\ g' = b.g
             /\ access_token' = b.tok
             /\ token_expires_at' = b.exp
             /\ tm_obs' = b.obs
    /\ UNCHANGED << Config, aux, request_count, error_count, p, rl >>
    /\ po' = PoIdle /\ metrics' = NoReport

\* The token endpoint is asked only by the iterations that exchange a token
FirstExchange(o) ==
    IF o.kind = "resp" /\ is_auth_error(o.status) /\ ~is_rate_limited(o.status, g.retry)
    THEN ExchangeOutcomes(access_token) ELSE {NoExchange}
SecondExchange(o, e1) ==
    IF /\ o.kind = "resp" /\ is_auth_error(o.status)
       /\ ~is_rate_limited(o.status, g.retry)
       /\ e1.kind = "ok"
       /\ LET f == fetch_new_token(access_token, token_expires_at, now, e1)
          IN  needs_refresh(f.tok, f.exp, now)
    THEN ExchangeOutcomes(Some(e1.token)) ELSE {NoExchange}

\* One iteration of get's loop: one HTTP attempt and what the code does with its
\* outcome; when get ends inside a paginate generator, the generator goes on.
GetAttempt ==
    /\ g.pc = "loop"
    /\ \E o \in GetOutcomes(g.caller) :
       \E e1 \in FirstExchange(o) :
       \E e2 \in SecondExchange(o, e1) :
         LET r == get_iteration(g, access_token, token_expires_at, now, o, e1, e2)
         IN  /\ g' = r.g
             /\ access_token' = r.tok
             /\ token_expires_at' = r.exp
             /\ now' = r.now
             /\ request_count' = count_request(request_count)
             /\ error_count' = IF r.derr = 1 THEN count_error(error_count)
                               ELSE error_count
             /\ tm_obs' = r.obs
             /\ p' = IF g.caller = "paginate" THEN pag_after_get(p, r.g) ELSE p
    /\ UNCHANGED << Config, aux, rl >>
    /\ po' = PoIdle /\ metrics' = NoReport

\* The caller calls client.paginate(endpoint, params, page_size, max_pages):
\* a generator object is made, none of its code has run yet.
PaginateCall ==
    /\ p.pc = "none"
    /\ \E mp \in MaxPagesChoices :
         p' = [PIdle EXCEPT !.pc = "suspended", !.max_pages = mp, !.seq = 1]
    /\ now' = now
    /\ UNCHANGED << Config, aux, access_token, token_expires_at, request_count,
                    error_count, g, rl, tm_obs >>
    /\ po' = PoIdle /\ metrics' = NoReport

\* The consumer asks the generator for its next element: the generator runs to
\* the end of its code or into self.get.
PaginateNext ==
    /\ p.pc = "suspended"
    /\ g.pc # "loop"
    /\ p.yielded <= MaxPagesBound
    /\ LET a == pag_advance(p)
       IN  IF a.pc = "ended"
           THEN /\ p' = a
                /\ UNCHANGED << now, access_token, token_expires_at, g, tm_obs >>
           ELSE \E e \in StartExchange(now) :
                  LET q == pag_looptop(a)
                      b == begin_get("paginate", TRUE, access_token,
                                     token_expires_at, now, e)
                  IN  /\ g' = b.g
                      /\ access_token' = b.tok
                      /\ token_expires_at' = b.exp
                      /\ tm_obs' = b.obs
                      /\ p' = pag_after_get(q, b.g)
                      /\ now' = now
    /\ UNCHANGED << Config, aux, request_count, error_count, rl >>
    /\ po' = PoIdle /\ metrics' = NoReport

\* handler = RateLimitHandler(max_retries, base_delay);
\* handler.handle_rate_limit(response, attempt), once
HandleRateLimitCall ==
    /\ ~rl.called
    /\ \E status \in {200, 429}, ra \in RetryAfterValues, attempt \in 0..MaxAttemptArg,
          maxr \in 0..(MaxAttemptArg + 1), base \in BaseDelayChoices :
         LET r == handle_rate_limit(status, ra, attempt, maxr, base)
         IN  /\ rl' = [called |-> TRUE, status |-> status, retry_after |-> ra,
                       attempt |-> attempt, max_retries |-> maxr, base_delay |-> base,
                       raised |-> r.raised, slept |-> r.slept, wait |-> r.wait]
             /\ now' = now + r.wait
    /\ UNCHANGED << Config, aux, access_token, token_expires_at, request_count,
                    error_count, g, p, tm_obs, po, metrics >>

\* The caller calls client.post(endpoint, json, data), d seconds after the
\* previous call: the whole call, it has no loop.
Post ==
    /\ request_count < MaxRequests
    /\ g.pc # "loop"
    /\ \E d \in { x \in ElapsedChoices : now + x <= MaxNow }, o \in PostOutcomes :
       \E e \in StartExchange(now + d) :
         LET r == post(access_token, token_expires_at, now + d, o, e)
         IN  /\ po' = r.po
             /\ access_token' = r.tok
             /\ token_expires_at' = r.exp
             /\ now' = r.now
             /\ request_count' = IF r.po.requests > 0 THEN count_request(request_count)
                                 ELSE request_count
             /\ error_count' = IF r.po.errs > 0 THEN count_error(error_count)
                               ELSE error_count
             /\ tm_obs' = IF has_auth
                          THEN ObsGat(NoObs, access_token, token_expires_at, now + d,
                                      r.po.exch)
                          ELSE NoObs
    /\ metrics' = NoReport
    /\ UNCHANGED << Config, aux, g, p, rl >>

\* The caller calls client.get_metrics()
GetMetrics ==
    /\ metrics' = Some(get_metrics(request_count, error_count))
    /\ po' = PoIdle
    /\ UNCHANGED << Config, aux, now, access_token, token_expires_at, request_count,
                    error_count, g, p, rl, tm_obs >>

\* The caller calls client.paginate(endpoint, params, page_size, max_pages)
\* with a params argument of its choice, also after an earlier sequence is over
PaginateCallWithParams ==
    /\ p.pc \in {"none", "ended", "raised"}
    /\ g.pc # "loop"
    /\ p.seq < MaxSequences
    /\ \E mp \in {None, Some(1)}, size \in PageSizeChoices, arg \in ParamsArgs :
         p' = [PIdle EXCEPT !.pc = "suspended", !.max_pages = mp, !.page_size = size,
                            !.arg = arg, !.seq = p.seq + 1,
                            !.caller_cursor = p.caller_cursor,
                            !.caller_limit = p.caller_limit]
    /\ now' = now
    /\ UNCHANGED << Config, aux, access_token, token_expires_at, request_count,
                    error_count, g, rl, tm_obs >>
    /\ po' = PoIdle /\ metrics' = NoReport

\* A client serving plain get calls
Next == DirectGet \/ GetAttempt

Spec == Init /\ [][Next]_vars

\* A client serving paginate calls
PagNext == PaginateCall \/ PaginateNext \/ GetAttempt

PagInit == Init /\ ~has_auth

PagSpec == PagInit /\ [][PagNext]_vars

\* A client serving several paginate calls, one after the other
CursorInit == Init /\ ~has_auth /\ max_retries = 1

CursorSpec == CursorInit /\ [][PaginateCallWithParams \/ PaginateNext \/ GetAttempt]_vars

\* A stand-alone rate-limit handler
RateInit == Init /\ ~has_auth /\ max_retries = 0


RateSpec == RateInit /\ [][HandleRateLimitCall]_vars

\* A client without token manager serving get, post and get_metrics calls
ClientNext == DirectGet \/ GetAttempt \/ Post \/ GetMetrics

ClientInit == Init /\ ~has_auth

ClientSpec == ClientInit /\ [][ClientNext]_vars

\* A client serving post and get_metrics calls
PostNext == Post \/ GetMetrics

PostSpec == Init /\ [][PostNext]_vars

\* the REST client's own state
rest == << max_retries, has_auth, refresh_buffer, request_count, error_count,
           g, p, rl, po, metrics >>

-----------------------------------------------------------------------------
(* OAuth2TokenManager with the requests of its session counted.  The session  *)
(* is built by _create_session with Retry(total=3, status_forcelist=[429,     *)
(* 500, 502, 503, 504], allowed_methods including POST): "Retry on network    *)
(* errors and 5xx server errors".                                             *)

RetryTotal == 3
RetryStatusForcelist == {429, 500, 502, 503, 504}
RetryAllowedMethods == {"HEAD", "GET", "PUT", "POST", "DELETE", "OPTIONS"}

\* What the token endpoint answers to one sending of the request
TokenAnswers ==
    { [kind |-> "resp", status |-> 200, expires_in |-> x] : x \in ExpiresInChoices }
        \cup { [kind |-> "resp", status |-> st, expires_in |-> None] : st \in {400, 503} }
        \cup { [kind |-> "connerr", status |-> 0, expires_in |-> None] }

\* the adapter sends the request again after this answer
retry_applies(method, a) ==
    /\ method \in RetryAllowedMethods
    /\ a.kind = "connerr" \/ a.status \in RetryStatusForcelist

\* self.session.post(...): the k-th sending is answered answers[k]; the adapter
\* sends again while the answer asks for it and fewer than total retries were made
RECURSIVE session_request(_, _, _)
session_request(method, answers, k) ==
    IF retry_applies(method, answers[k]) /\ k <= RetryTotal
    THEN session_request(method, answers, k + 1)
    ELSE [sends |-> k, answer |-> answers[k]]

\* lines 124-145 seen from _fetch_new_token: a token, or RequestException
exchange_of(tok, a) ==
    IF a.kind = "resp" /\ ~raises_for_status(a.status) /\ ~retry_applies("POST", a)
    THEN [kind |-> "ok", token |-> CHOOSE x \in FreshTokens(tok) : TRUE,
          expires_in |-> a.expires_in]
    ELSE NoExchange

\* The caller calls manager.get_access_token(), d seconds after the previous call
TokenCall ==
    /\ \E d \in { x \in ElapsedChoices : now + x <= MaxNow },
          answers \in [1..(RetryTotal + 1) -> TokenAnswers] :
         LET need == needs_refresh(access_token, token_expires_at, now + d)
             sr   == session_request("POST", answers, 1)
             r    == get_access_token(access_token, token_expires_at, now + d,
                                      exchange_of(access_token, sr.answer))
         IN  /\ now' = now + d
             /\ access_token' = r.tok
             /\ token_expires_at' = r.exp
             /\ tm_obs' = ObsGat(NoObs, access_token, token_expires_at, now + d,
                                 r.exchanges)
             /\ tk' = [called |-> TRUE, exchanges |-> r.exchanges,
                       sends |-> IF need THEN sr.sends ELSE 0,
                       raised |-> r.raised,
                       last_status |-> IF need THEN sr.answer.status ELSE 0]
    /\ UNCHANGED << rest, fw, wg, th, sm, dr, ck >>

\* What one exchange can come to: a token response, a failed request, or a 2xx
\* answer that is not a well-formed token response
ExchangeResults(tok) ==
    ExchangeOutcomes(tok)
        \cup [kind : {"not_json", "no_token", "bad_expires"},
              token : FreshTokens(tok), expires_in : {None}]

\* The caller calls manager.get_access_token(), d seconds after the previous
\* call; the exchange, if one is made, comes to e
TokenCallAnswered ==
    /\ \E d \in { x \in ElapsedChoices : now + x <= MaxNow } :
       \E e \in ExchangeResults(access_token) :
         LET r == get_access_token(access_token, token_expires_at, now + d, e)
         IN  /\ now' = now + d
             /\ access_token' = r.tok
             /\ token_expires_at' = r.exp
             /\ tm_obs' = ObsGat(NoObs, access_token, token_expires_at, now + d,
                                 r.exchanges)
             /\ tk' = [called |-> TRUE, exchanges |-> r.exchanges,
                       sends |-> r.exchanges, raised |-> r.raised,
                       last_status |-> IF r.exchanges = 0 THEN 0
                                       ELSE IF e.kind = "error" THEN 400 ELSE 200]
    /\ UNCHANGED << rest, fw, wg, th, sm, dr, ck >>


TokenInit == Init /\ has_auth /\ max_retries = 0

TokenSpec == TokenInit /\ [][TokenCall]_vars

ExchangeSpec == TokenInit /\ [][TokenCallAnswered]_vars

-----------------------------------------------------------------------------
(* SecretsManager *)

\* The job calls secrets.get_secret(name, max_age_seconds), d seconds after the
\* previous call; the backend gives the secret's current value or a ClientError
GetSecretCall ==
    /\ sm.calls < MaxSecretCalls
    /\ \E name \in SecretNames, max_age \in MaxAgeChoices, fails \in BOOLEAN,
          d \in { x \in SecretElapsedChoices : now + x <= MaxSecretNow } :
         LET r == get_secret(sm.cache, name, now + d, max_age,
                             IF fails THEN None ELSE Some(sm.backend[name]))
         IN  /\ now' = now + d
             /\ sm' = [sm EXCEPT !.cache = r.cache, !.calls = sm.calls + 1,
                                 !.last = [name |-> name, max_age |-> max_age,
                                           at |-> now + d, value |-> r.value,
                                           backend_calls |-> r.backend_calls,
                                           raised |-> r.raised]]
    /\ UNCHANGED << rest, fw, wg, access_token, token_expires_at, tm_obs, th, tk, dr, ck >>

\* The secret is rotated in the backend
RotateSecret ==
    /\ \E name \in SecretNames :
         \E v \in SecretValues \ {sm.backend[name]} :
            sm' = [sm EXCEPT !.backend[name] = v]
    /\ UNCHANGED << rest, fw, wg, now, access_token, token_expires_at, tm_obs, th, tk, dr, ck >>

SecNext == GetSecretCall \/ RotateSecret

SecInit == Init /\ ~has_auth /\ max_retries = 0

SecSpec == SecInit /\ [][SecNext]_vars

-----------------------------------------------------------------------------
(* daterange *)

\* daterange(start, end) is called: the generator is created, nothing runs yet
DateRangeCall ==
    /\ dr.pc \in {"none", "ended", "raised"}
    /\ \E start \in DateChoices, end \in DateChoices :
         /\ end - start <= MaxRangeDays
         /\ dr' = [pc |-> "created", start |-> start, end |-> end, current |-> 0,
                   out |-> << >>]
    /\ UNCHANGED << rest, fw, wg, now, access_token, token_expires_at, tm_obs, th, tk, sm, ck >>

\* The consumer (for ... in daterange(...), list(...)) asks for the next date
DateRangeNext ==
    /\ dr.pc \in {"created", "suspended"}
    /\ dr' = dr_next(dr)
    /\ UNCHANGED << rest, fw, wg, now, access_token, token_expires_at, tm_obs, th, tk, sm, ck >>

DateNext == DateRangeCall \/ DateRangeNext

DateInit == Init /\ ~has_auth

DateSpec == DateInit /\ [][DateNext]_vars

-----------------------------------------------------------------------------
(* CheckpointManager *)

ReadCheckpoint ==
    /\ \E key \in CheckpointKeys :
         \E answer \in GetObjectAnswers(ck.store, key) :
            ck' = [ck EXCEPT !.last = read_checkpoint(ck.store, key, answer)]
    /\ UNCHANGED << rest, fw, wg, now, access_token, token_expires_at, tm_obs, th, tk, sm, dr >>

WriteCheckpoint ==
    /\ \E key \in CheckpointKeys, data \in CheckpointData,
          answer \in PutObjectAnswers,
          d \in { x \in {0, 1} : now + x <= MaxCheckpointNow } :
         LET r == write_checkpoint(ck.store, key, data, now + d, answer)
         IN  /\ now' = now + d
             /\ ck' = [store |-> IF answer = "stored"
                                 THEN [ck.store EXCEPT ![key] = Some(json_dumps(r.data))]
                                 ELSE ck.store,
                       last |-> r]
    /\ UNCHANGED << rest, fw, wg, access_token, token_expires_at, tm_obs, th, tk, sm, dr >>

\* "Checkpoints can become corrupted": the object stops being a JSON document
CheckpointCorrupted ==
    /\ \E key \in CheckpointKeys :
         /\ ~IsNone(ck.store[key])
         /\ Val(ck.store[key]) # CorruptBody
         /\ ck' = [store |-> [ck.store EXCEPT ![key] = Some(CorruptBody)],
                   last |-> NoCheckpointOp]
    /\ UNCHANGED << rest, fw, wg, now, access_token, token_expires_at, tm_obs, th, tk, sm, dr >>

CkptNext == ReadCheckpoint \/ WriteCheckpoint \/ CheckpointCorrupted

CkptInit == Init /\ ~has_auth /\ max_retries = 0

CkptSpec == CkptInit /\ [][CkptNext]_vars

-----------------------------------------------------------------------------
(* The extract job fetching one date *)

\* The job calls fetch_weather_data_for_date(api_endpoint, lat, lon, target_date)
FetchWeatherCall ==
    /\ fw.pc # "loop"
    /\ fw.calls < MaxFetchCalls
    /\ fw' = fetch_while_test([FwIdle EXCEPT !.calls = fw.calls + 1])
    /\ UNCHANGED << rest, wg, now, access_token, token_expires_at, tm_obs, th, tk, sm, dr, ck >>

\* One iteration of its loop: one requests.get and what the code does with the answer
FetchWeatherAttempt ==
    /\ fw.pc = "loop"
    /\ \E o \in FetchOutcomes :
         LET r == fetch_iteration(fw, now, o)
         IN  fw' = r.f /\ now' = r.now
    /\ UNCHANGED << rest, wg, access_token, token_expires_at, tm_obs, th, tk, sm, dr, ck >>

FetchInit == Init /\ ~has_auth /\ max_retries = 0

FetchSpec == FetchInit /\ [][FetchWeatherCall \/ FetchWeatherAttempt]_vars

-----------------------------------------------------------------------------
(* APIClient.get on a client without token manager, max_retries <= 1: the    *)
(* whole call, with the sendings of its one session.get                        *)

WireGet ==
    /\ request_count < MaxRequests
    /\ \E retry \in BOOLEAN, answers \in [1..(ClientRetryTotal + 1) -> WireAnswers] :
         LET b  == begin_get("direct", retry, access_token, token_expires_at, now,
                             NoExchange)
             sr == client_session_request("GET", answers, 1)
             \* what session.get hands to get's code: the response, or for a
             \* request the adapter gave up on a RequestException
             seen == IF sr.exhausted THEN Failure("connerr") ELSE sr.answer
             r  == get_iteration(b.g, access_token, token_expires_at, now,
                                 seen, NoExchange, NoExchange)
         IN  IF b.g.pc # "loop"
             THEN /\ wg' = [WgIdle EXCEPT !.called = TRUE, !.retry = retry,
                                          !.pc = b.g.pc, !.err = b.g.err]
                  /\ UNCHANGED << request_count, error_count >>
             ELSE /\ wg' = [called |-> TRUE, retry |-> retry, sends |-> sr.sends,
                            backoffs |-> sr.sends - 1,
                            pc |-> r.g.pc,
                            err |-> IF sr.exhausted /\ sr.answer.kind = "resp"
                                    THEN "RetryError" ELSE r.g.err,
                            last |-> [kind |-> sr.answer.kind,
                                      status |-> sr.answer.status],
                            session_gets |-> r.g.requests]
                  /\ request_count' = count_request(request_count)
                  /\ error_count' = IF r.derr = 1 THEN count_error(error_count)
                                    ELSE error_count
    /\ UNCHANGED << Config, now, access_token, token_expires_at, g, p, rl, tm_obs,
                    po, metrics, th, tk, sm, dr, ck, fw >>

WireInit == Init /\ ~has_auth /\ max_retries <= 1

WireSpec == WireInit /\ [][WireGet]_vars

-----------------------------------------------------------------------------
(* Two threads sharing one OAuth2TokenManager *)

ThSet(i, r) == [th EXCEPT !.t[i] = r]

\* thread i calls manager.get_access_token()
ThreadCall(i) ==
    /\ th.t[i].pc = "idle"
    /\ th.t[i].calls < MaxThreadCalls
    /\ th' = ThSet(i, [th.t[i] EXCEPT !.pc = "check", !.calls = @ + 1,
                                       !.result = "none"])
    /\ UNCHANGED << rest, fw, wg, now, access_token, token_expires_at, tm_obs, tk, sm, dr, ck >>

\* if self._needs_refresh(): it reads access_token and token_expires_at
ThreadCheck(i) ==
    /\ th.t[i].pc = "check"
    /\ th' = ThSet(i, [th.t[i] EXCEPT
                 !.pc = IF needs_refresh(access_token, token_expires_at, now)
                        THEN "inflight" ELSE "ret",
                 !.seen_torn = @ \/ th.wtok # th.wexp])
    /\ UNCHANGED << rest, fw, wg, now, access_token, token_expires_at, tm_obs, tk, sm, dr, ck >>

\* the token endpoint answers thread i's exchange: on success line 137 assigns
\* access_token, on failure RuntimeError leaves get_access_token
ThreadAnswered(i) ==
    /\ th.t[i].pc = "inflight"
    /\ \E e \in ExchangeOutcomes(access_token) :
         IF e.kind = "ok"
         THEN /\ access_token' = Some(e.token)
              /\ th' = [ThSet(i, [th.t[i] EXCEPT !.pc = "expiry",
                                                  !.expires_in = e.expires_in,
                                                  !.xid = th.n + 1])
                           EXCEPT !.n = th.n + 1, !.wtok = th.n + 1]
         ELSE /\ access_token' = access_token
              /\ th' = ThSet(i, [th.t[i] EXCEPT !.pc = "idle",
                                                 !.result = "RuntimeError"])
    /\ UNCHANGED << rest, fw, wg, now, token_expires_at, tm_obs, tk, sm, dr, ck >>

\* lines 138-139: expires_in, self.token_expires_at = utcnow() + expires_in
ThreadSetExpiry(i) ==
    /\ th.t[i].pc = "expiry"
    /\ token_expires_at' =
           Some(now + (IF IsNone(th.t[i].expires_in) THEN DefaultExpiresIn
                       ELSE Val(th.t[i].expires_in)))
    /\ th' = [ThSet(i, [th.t[i] EXCEPT !.pc = "ret", !.expires_in = None, !.xid = 0])
                 EXCEPT !.wexp = th.t[i].xid]
    /\ UNCHANGED << rest, fw, wg, now, access_token, tm_obs, tk, sm, dr, ck >>

\* lines 97-100: raise without a token, else return self.access_token
ThreadReturn(i) ==
    /\ th.t[i].pc = "ret"
    /\ th' = ThSet(i, [th.t[i] EXCEPT
                 !.pc = "idle",
                 !.result = IF TruthyStr(access_token) THEN "returned"
                            ELSE "RuntimeError"])
    /\ UNCHANGED << rest, fw, wg, now, access_token, token_expires_at, tm_obs, tk, sm, dr, ck >>

\* time passes while the threads run
ThreadTick ==
    /\ \E d \in { x \in ElapsedChoices : x > 0 /\ now + x <= MaxNow } : now' = now + d
    /\ UNCHANGED << rest, fw, wg, access_token, token_expires_at, tm_obs, aux >>

ConcNext ==
    \/ \E i \in Threads : ThreadCall(i)
    \/ \E i \in Threads : ThreadCheck(i)
    \/ \E i \in Threads : ThreadAnswered(i)
    \/ \E i \in Threads : ThreadSetExpiry(i)
    \/ \E i \in Threads : ThreadReturn(i)
    \/ ThreadTick

ConcInit == Init /\ has_auth /\ max_retries = 0

ConcSpec == ConcInit /\ [][ConcNext]_vars

-----------------------------------------------------------------------------
(* Properties *)

PermanentClientError(last) ==
    /\ last.kind = "resp"
    /\ last.status >= 400 /\ last.status < 500
    /\ last.status # 429
    /\ ~(last.status = 401 /\ has_auth)

\* C2: a permanent client error ends the call in the iteration that received it:
\* the call raises, no later request follows, and the iteration did not sleep;
\* received on the first attempt, it leaves the call with exactly one request.
C2_PermanentErrorNotRetried ==
    PermanentClientError(g.last) =>
        /\ g.pc = "raised"
        /\ g.err \in {"HTTPError", "ValueError"}
        /\ ~g.iter_slept
        /\ (g.prev.kind = "none" => g.requests = 1 /\ g.sleeps = 0)

C2_Witness ==
    /\ g.last.kind = "resp" /\ g.last.status = 404 /\ g.prev.kind = "none"
    /\ g.pc = "raised" /\ g.err = "HTTPError" /\ g.requests = 1
    /\ g.max_attempts = 2

\* The iteration before the last one handled a 401 by refreshing the token
After401Refresh == g.prev.kind = "resp" /\ g.prev.status = 401 /\ has_auth

\* C3: every 401 handled with a token manager makes exactly one token exchange,
\* and a 2xx on the retried request is returned without any further exchange
\* (unless its rate-limit headers cannot be read, see C23).
C3_OneExchangePer401 ==
    /\ (g.last.kind = "resp" /\ g.last.status = 401 /\ has_auth /\ g.pc # "idle")
            => g.exch401 = 1
    /\ (After401Refresh /\ g.last.kind = "resp" /\ g.last.status = 200)
            => (g.pc = "returned" \/ g.err = "ValueError") /\ g.exch401 = 0

SecondsHeaders == { <<"0">>, <<"5">>, <<"1", "2">> }
SecondsOf(text) ==
    CASE text = <<"0">> -> 0 [] text = <<"5">> -> 5 [] text = <<"1", "2">> -> 12

\* C5: a 429 with Retry-After: n, at every attempt number below max_retries,
\* makes the handler sleep exactly n seconds, whatever the attempt number and
\* base_delay are.
C5_RetryAfterWait ==
    (rl.called /\ rl.status = 429 /\ ~IsNone(rl.retry_after)
        /\ rl.attempt < rl.max_retries)
    => (Val(rl.retry_after) \in SecondsHeaders
           => /\ rl.raised = "none" /\ rl.slept
              /\ rl.wait = SecondsOf(Val(rl.retry_after))
              /\ now = rl.wait)

C5_Witness ==
    /\ rl.called /\ rl.status = 429 /\ rl.retry_after = Some(<<"5">>)
    /\ rl.attempt = 3 /\ rl.max_retries = 4 /\ rl.base_delay = 2
    /\ rl.slept /\ rl.wait = 5

\* C6 (as claimed): a token exchange is made if and only if the token is unset
\* or now >= expiresAt - refreshBuffer at that moment.
C6_ExchangeIffStale ==
    /\ (tm_obs.gat = "exchanged" => tm_obs.gat_stale)
    /\ (tm_obs.gat = "reused" => ~tm_obs.gat_stale)
    /\ (tm_obs.forced => tm_obs.forced_stale)

\* C6 (amended): get_access_token makes an exchange if and only if the token is
\* unset or now >= expiresAt - refreshBuffer, and reuses the held token
\* otherwise; the only other exchange is the one get forces when the server
\* answered 401 and a token manager is attached, whatever the expiry.
C6_ExchangeIffStaleOrForced ==
    /\ (tm_obs.gat = "exchanged" => tm_obs.gat_stale)
    /\ (tm_obs.gat = "reused" => ~tm_obs.gat_stale)
    /\ (tm_obs.gat = "reused" =>
            ~IsNone(token_expires_at) /\ Val(token_expires_at) - now > refresh_buffer)
    /\ (tm_obs.forced =>
            g.last.kind = "resp" /\ g.last.status = 401 /\ has_auth /\ g.exch401 >= 1)
    /\ (g.pc # "idle" /\ ~has_auth => g.exch = 0)

\* a token with 10 minutes left and a 5-minute buffer is reused
C6_Witness ==
    /\ tm_obs.gat = "reused" /\ ~tm_obs.gat_stale
    /\ refresh_buffer = 300
    /\ Val(token_expires_at) - now = 600
    /\ g.exch = 0 /\ g.pc = "loop"

\* C7: get_access_token never returns a token with now >= expiresAt -
\* refreshBuffer at the time it returns.
C7_ReturnedTokenUsable ==
    (tm_obs.gat # "none" /\ g.err # "TokenFetchFailed")
        => ~TokenStale(access_token, token_expires_at, now)

\* C8: without max_pages the generator yields one page per get, never asks for a
\* page after one that has neither a cursor nor has_more = true, and ends right
\* after the first such page: k pages and k get calls.
C8_NaturalExhaustion ==
    (IsNone(p.max_pages) /\ p.pc # "none") =>
        /\ p.prefix_open
        /\ p.gets = p.yielded + (IF p.pc \in {"fetching", "raised"} THEN 1 ELSE 0)
        /\ (p.pc \in {"fetching", "raised"} /\ p.yielded >= 1 => ~PageIsLast(p.last))
        /\ (p.pc = "ended" =>
                p.yielded >= 1 /\ PageIsLast(p.last) /\ p.reason = "exhausted"
                /\ p.page_count = p.yielded)

\* pages [{next_cursor: "c1"}, {has_more: false}]: 2 pages, 2 gets, then the end
C8_Witness ==
    /\ IsNone(p.max_pages) /\ p.pc = "ended"
    /\ p.yielded = 2 /\ p.gets = 2
    /\ p.params_cursor = Some("c1")
    /\ IsNone(p.last.next_cursor) /\ p.last.has_more = Some(FALSE)

\* C9: with max_pages = k >= 1 and a cursor on every page, the generator yields
\* at most k pages with one get each, asks for nothing after the k-th page and
\* ends there without raising.
C9_MaxPagesTruncates ==
    (~IsNone(p.max_pages) /\ p.all_cursor /\ p.pc # "none") =>
        (Val(p.max_pages) >= 1 =>
            /\ p.yielded <= Val(p.max_pages)
            /\ p.gets <= Val(p.max_pages)
            /\ (p.yielded = Val(p.max_pages) =>
                    p.pc \in {"suspended", "ended"} /\ p.gets = Val(p.max_pages))
            /\ (p.pc = "ended" =>
                    p.yielded = Val(p.max_pages) /\ p.reason = "truncated")
            /\ (p.pc = "raised" => g.pc = "raised" /\ p.gets = p.yielded + 1))

C9_Witness ==
    /\ p.max_pages = Some(2) /\ p.all_cursor
    /\ p.pc = "ended" /\ p.yielded = 2 /\ p.gets = 2 /\ p.reason = "truncated"
    /\ p.params_cursor # p.last.next_cursor

\* C10: the pages delivered tell the caller how the sequence ended: it ended by
\* truncation exactly when its last page still has a cursor or has_more = true,
\* and by natural exhaustion exactly when its last page has neither.
C10_TruncationObservable ==
    p.pc = "ended" =>
        /\ p.yielded >= 1
        /\ p.reason \in {"truncated", "exhausted"}
        /\ (p.reason = "truncated" <=> ~PageIsLast(p.last))
        /\ (p.reason = "exhausted" <=> PageIsLast(p.last))

\* max_pages was reached by a page that is also the natural end
C10_Witness ==
    /\ p.pc = "ended" /\ p.max_pages = Some(2) /\ p.page_count = 2
    /\ PageIsLast(p.last) /\ p.reason = "exhausted"

\* The page just delivered carries the same cursor token as the page before it
CursorStalled ==
    /\ p.pc = "suspended" /\ p.yielded >= 2
    /\ TruthyStr(p.last.next_cursor)
    /\ p.last.next_cursor = p.next_cursor

\* C11: without max_pages, once a page has come back with the same next_cursor
\* as the page before it, the generator does not go on asking with that cursor:
\* the consumer's next() makes no further get.
C11_RepeatedCursorStops ==
    [][ (CursorStalled /\ IsNone(p.max_pages)) => p'.gets = p.gets ]_vars

\* The page just delivered has an empty payload but announces more pages, and
\* max_pages does not cut the sequence here
EmptyPageWithMore ==
    /\ p.pc = "suspended" /\ p.yielded >= 1
    /\ p.last.empty /\ ~PageIsLast(p.last)
    /\ (IsNone(p.max_pages) \/ p.yielded < Val(p.max_pages))

\* C12: an empty page is yielded like any other, and the next() after an empty
\* page that carries a cursor or has_more = true makes the get for the following
\* page; a sequence that ends naturally ends on a page with no cursor and no
\* true has_more, whatever its payload.
C12_EmptyPageGoesOn ==
    [][ /\ (EmptyPageWithMore /\ p' # p) =>
              p'.gets = p.gets + 1 /\ p'.pc \in {"fetching", "suspended", "raised"}
        /\ (p.pc = "fetching" /\ g'.pc = "returned") =>
              p'.pc = "suspended" /\ p'.yielded = p.yielded + 1 /\ p'.last = g'.body
        /\ (p'.pc = "ended" /\ p'.reason = "exhausted") => PageIsLast(p'.last)
      ]_vars

\* an empty page with a cursor was delivered and the page after it is being fetched
C12_Witness ==
    /\ p.pc = "fetching" /\ g.pc = "loop"
    /\ p.yielded = 1 /\ p.gets = 2
    /\ p.last.empty /\ p.last.next_cursor = Some("c1")
    /\ p.params_cursor = Some("c1")

\* C13: the generator is lazy and forward-only: a get is made only on the
\* consumer's next(), one at a time, after every page fetched so far has been
\* delivered; HTTP requests are sent only while a next() is being served; a page
\* is delivered once, in order; and an error of the get for page i+1 reaches the
\* consumer with pages 1..i delivered.
C13_LazyForwardOnly ==
    [][ /\ p'.gets # p.gets =>
              p.pc = "suspended" /\ p.gets = p.yielded /\ p'.gets = p.gets + 1
        /\ request_count' # request_count => p.pc = "fetching" /\ p'.gets = p.gets
        /\ p'.yielded # p.yielded =>
              p'.yielded = p.yielded + 1 /\ p'.gets = p'.yielded /\ p'.pc = "suspended"
        /\ (p'.pc = "raised" /\ p.pc # "raised") =>
              p'.yielded = p.yielded /\ p'.gets = p'.yielded + 1
        /\ p.pc \in {"ended", "raised"} => p' = p
      ]_vars

\* the get for the third page failed after two pages were delivered
C13_Witness ==
    /\ p.pc = "raised" /\ g.pc = "raised" /\ g.err = "HTTPError"
    /\ p.yielded = 2 /\ p.gets = 3 /\ request_count = 3

\* The HTTP attempt the step made, if it made one: in get's loop or in post
AttemptMade ==
    IF g.pc = "loop" /\ g'.requests = g.requests + 1 THEN g'.last
    ELSE IF po'.requests = 1 THEN po'.last
    ELSE NoLast

\* An attempt that failed: no answer, or an answer that is not a 2xx
AttemptFailed(a) ==
    \/ a.kind \in {"timeout", "connerr"}
    \/ a.kind = "resp" /\ ~(a.status >= 200 /\ a.status < 300)

\* C14: every HTTP attempt adds one to request_count, every failed attempt (error
\* status, 429, 401, timeout, connection error) adds one to error_count and a
\* successful one adds none, so that after N successful and M failed attempts
\* get_metrics reports N+M, M and M/(N+M).
C14_MetricsCountAttempts ==
    [][ /\ AttemptMade.kind # "none" =>
              /\ request_count' = request_count + 1
              /\ error_count' = error_count + (IF AttemptFailed(AttemptMade) THEN 1 ELSE 0)
        /\ AttemptMade.kind = "none" =>
              request_count' = request_count /\ error_count' = error_count
        /\ metrics' # NoReport =>
              /\ Val(metrics').request_count = request_count
              /\ Val(metrics').error_count = error_count
              /\ request_count > 0 =>
                    Val(metrics').error_rate = [num |-> error_count, den |-> request_count]
      ]_vars

\* C15: a get or post call that has raised has added to error_count at least
\* once during the call, and every HTTP attempt adds exactly one to
\* request_count.
C15_FailureCounted ==
    [][ /\ g'.pc = "raised" => g'.errs >= 1
        /\ po'.pc = "raised" => po'.errs >= 1
        /\ AttemptMade.kind # "none" => request_count' = request_count + 1
      ]_vars

\* C16: request_count and error_count never go down in any step of get, post or
\* get_metrics, and get_metrics changes neither and reports both as they are.
C16_CountersMonotone ==
    [][ /\ request_count' >= request_count
        /\ error_count' >= error_count
        /\ metrics' # NoReport =>
              /\ request_count' = request_count /\ error_count' = error_count
              /\ Val(metrics').request_count = request_count
              /\ Val(metrics').error_count = error_count
      ]_vars

\* get_metrics after three attempts of which two failed
C16_Witness ==
    /\ metrics # NoReport
    /\ Val(metrics).request_count = 3 /\ Val(metrics).error_count = 2
    /\ request_count = 3 /\ error_count = 2

\* C17: a post call makes one HTTP request and no more, whatever the answer; it
\* does not sleep; the only token exchange it can cause is the one of
\* get_access_token for a token that needs a refresh, never one because of the
\* answer; an answer that is not a 2xx and a transport error raise after that
\* one request, a 2xx returns.  (No request at all is made when the token
\* exchange before it fails.)
C17_PostSingleAttempt ==
    po.pc # "none" =>
        /\ po.requests <= 1 /\ po.wait = 0
        /\ (po.requests = 0 <=> po.err = "TokenFetchFailed")
        /\ po.exch <= 1
        /\ (po.exch = 1 => has_auth /\ tm_obs.gat_stale)
        /\ (has_auth /\ ~tm_obs.gat_stale => po.exch = 0)
        /\ (po.requests = 1 =>
              IF AttemptFailed(po.last)
              THEN po.pc = "raised" /\ po.errs = 1
                   /\ po.err \in {"Timeout", "ConnectionError", "HTTPError"}
              ELSE po.pc = "returned" /\ po.errs = 0)

\* a 401 answered to a post that sent a held token: raised, no exchange
C17_Witness ==
    /\ po.pc = "raised" /\ po.err = "HTTPError" /\ po.last.status = 401
    /\ has_auth /\ po.exch = 0 /\ po.requests = 1
    /\ request_count = 2

\* Every attempt of the call was answered 429
All429 ==
    /\ g.retry /\ g.requests >= 1
    /\ g.last.kind = "resp" /\ g.last.status = 429
    /\ g.sleeps >= g.requests - 1

\* C18: a get whose every attempt was answered 429 fails with the rate-limit
\* error of the handler ("Rate limit exceeded"), raised at the 429 for which the
\* handler declines to wait, and not with the error of a used-up attempt budget.
C18_RateLimitExceeded ==
    (All429 /\ g.pc = "raised") =>
        /\ g.err = "RuntimeError"
        /\ ~g.iter_slept
        /\ g.err # "FailedAfterAttempts"

\* C19: a get that was answered 401 again after it had refreshed the token ends
\* by raising, never by returning, and the error it raises is not the one of a
\* used-up attempt budget.
C19_Persistent401Surfaced ==
    (After401Refresh /\ g.last.kind = "resp" /\ g.last.status = 401
        /\ g.pc \in {"returned", "raised"})
    => g.pc = "raised" /\ g.err # "FailedAfterAttempts"

\* C20: an attempt that timed out counts as one attempt; the call goes on while
\* attempts are left and raises the timeout when it was the last one, after
\* exactly max_attempts requests; a 2xx answered after a timeout is returned.
C20_TimeoutRetried ==
    /\ g.last.kind = "timeout" =>
          /\ g.pc \in {"loop", "raised"}
          /\ (g.pc = "loop" => g.attempt = g.requests /\ g.attempt < g.max_attempts)
          /\ (g.pc = "raised" => g.err = "Timeout" /\ g.requests = g.max_attempts)
    /\ (g.prev.kind = "timeout" /\ g.last.kind = "resp"
            /\ g.last.status >= 200 /\ g.last.status < 300)
       => g.pc = "returned"

\* C21: a connection error on an attempt is retried while attempts are left: the
\* call raises it only when that attempt was the last of the budget.
C21_ConnectionErrorRetried ==
    g.last.kind = "connerr" =>
        /\ g.pc \in {"loop", "raised"}
        /\ (g.pc = "raised" => g.requests = g.max_attempts)
        /\ (g.requests < g.max_attempts => g.pc = "loop")

\* Statuses of the server errors that count as transient
ServerErrorStatuses == {500, 502, 503, 504}

\* C22: a server error answered to attempt number n < max_retries does not end
\* the call: the client sleeps base_delay * 2^n seconds and goes on.
C22_ServerErrorRetried ==
    (g.last.kind = "resp" /\ g.last.status \in ServerErrorStatuses
        /\ g.requests - 1 < max_retries)
    => /\ g.pc # "raised"
       /\ g.iter_slept
       /\ g.last_wait = DefaultBaseDelay * (2 ^ (g.requests - 1))

\* Two answers that differ at most in their X-RateLimit headers
SameButRateLimitHeaders(o1, o2) ==
    /\ o1.kind = o2.kind /\ o1.status = o2.status
    /\ o1.retry_after = o2.retry_after /\ o1.body = o2.body

\* C23: whatever state a get is in, two answers that differ only in their
\* X-RateLimit headers lead the attempt to the same result: same return value or
\* error, same attempt number, same counters, same token state.
C23_RateLimitHeadersAdvisory ==
    g.pc = "loop" =>
        \A o1 \in GetOutcomes(g.caller) :
        \A o2 \in { o \in GetOutcomes(g.caller) : SameButRateLimitHeaders(o1, o) } :
        \A e1 \in FirstExchange(o1) :
        \A e2 \in SecondExchange(o1, e1) :
            get_iteration(g, access_token, token_expires_at, now, o1, e1, e2)
              = get_iteration(g, access_token, token_expires_at, now, o2, e1, e2)

\* C25: the call that follows a call ended by a failed token exchange asks the
\* token endpoint again: its get_access_token makes an exchange.
C25_FailureNotSticky ==
    [][ (g.pc = "raised" /\ g.err = "TokenFetchFailed" /\ tm_obs'.gat # "none")
            => tm_obs'.gat = "exchanged" ]_vars

\* C30: an attempt that follows a backoff wait does not send a token that was
\* usable before the wait and has crossed expiresAt - refreshBuffer during it.
C30_HeadersPerAttempt ==
    (g.pc = "loop" /\ has_auth /\ g.iter_slept /\ g.headers = access_token
        /\ ~TokenStale(access_token, token_expires_at, now - g.last_wait))
    => ~TokenStale(g.headers, token_expires_at, now)

\* C24: with two threads in one token manager at most one token exchange is in
\* flight at any time, and no thread reads access_token and token_expires_at
\* written by two different exchanges.
C24_RefreshMutuallyExclusive ==
    /\ Cardinality({ i \in Threads : th.t[i].pc = "inflight" }) <= 1
    /\ \A i \in Threads : ~th.t[i].seen_torn

\* C26: one get_access_token call sends the exchange request at most once, and a
\* failed exchange is raised to the caller after that single request.
C26_SingleExchangeRequest ==
    tk.called =>
        /\ tk.sends <= 1
        /\ (tk.exchanges = 1 /\ tk.raised # "none" => tk.sends = 1)

\* C27: when a get_secret call has fetched a secret from the backend and the
\* next get_secret call asks for the same name less than max_age_seconds later,
\* the second call returns the same value and is served from the cache: the
\* backend is called once for the two calls, also when the secret was rotated in
\* between.
C27_SecondCallCached ==
    [][ (/\ sm'.calls = sm.calls + 1
         /\ sm.last.raised = "none" /\ sm.last.backend_calls = 1
         /\ sm'.last.name = sm.last.name
         /\ sm'.last.at - sm.last.at < sm'.last.max_age)
        => /\ sm'.last.raised = "none"
           /\ sm'.last.value = sm.last.value
           /\ sm'.last.backend_calls = 0
           /\ sm.last.backend_calls + sm'.last.backend_calls = 1
           /\ sm'.cache = sm.cache
      ]_vars

\* the second call, 299 s after the first, returned v1 from the cache although
\* the backend holds v2 by then
C27_Witness ==
    /\ sm.calls = 2 /\ sm.last.name = "s1" /\ sm.last.max_age = DefaultMaxAge
    /\ sm.last.backend_calls = 0 /\ sm.last.value = Some("v1")
    /\ sm.backend["s1"] = "v2"
    /\ sm.last.at - Val(sm.cache["s1"]).fetched_at = 299

\* The number of dates from start to end inclusive
DatesInRange(start, end) == IF start <= end THEN end - start + 1 ELSE 0

\* The dates yielded so far are start, start + 1, ... in this order, none of
\* them past end; a generator that has finished has yielded all of them
C28_Yields ==
    /\ \A i \in 1..Len(dr.out) : dr.out[i] = dr.start + i - 1
    /\ Len(dr.out) <= DatesInRange(dr.start, dr.end)
    /\ dr.pc \in {"ended", "raised"} => Len(dr.out) = DatesInRange(dr.start, dr.end)

\* C28: daterange(start, end) yields start, start + 1, ..., end, consecutive
\* and without duplicates, (end - start) + 1 dates when start <= end and none
\* when start > end, and then ends: asked for the next date after the last one
\* it stops (StopIteration), it raises nothing.
C28_DateRange == C28_Yields /\ dr.pc # "raised"

\* C29: read_checkpoint returns the mapping stored in the object when the
\* object exists (and holds a JSON document), and None, raising nothing, when
\* there is no such key or the store reports a client error; write_checkpoint
\* returns True after a successful put, which leaves the stamped data in the
\* store, and False, raising nothing and leaving the store as it was, on a
\* client error; either way put_object was called exactly once.
C29_OutcomesAsValues ==
    LET l == ck.last IN
    /\ (l.op = "read" /\ l.answer = "object" /\ Val(l.before).kind = "json")
         => /\ l.returned = "mapping" /\ l.raised = "none"
            /\ l.mapping = json_loads(Val(ck.store[l.key]))
    /\ (l.op = "read" /\ l.answer \in {"NoSuchKey", "ClientError"})
         => l.returned = "None" /\ l.raised = "none"
    /\ l.op = "read" => l.puts = 0 /\ ck.store[l.key] = l.before
    /\ (l.op = "write" /\ l.answer = "stored")
         => /\ l.returned = "True" /\ l.raised = "none" /\ l.puts = 1
            /\ json_loads(Val(ck.store[l.key])) = json_loads(json_dumps(l.data))
    /\ (l.op = "write" /\ l.answer = "ClientError")
         => /\ l.returned = "False" /\ l.raised = "none" /\ l.puts = 1
            /\ ck.store[l.key] = l.before

\* a client error while reading a checkpoint that exists: None is returned
C29_Witness ==
    /\ ck.last.op = "read" /\ ck.last.answer = "ClientError"
    /\ ck.last.returned = "None"
    /\ ~IsNone(ck.store[ck.last.key])
    /\ Val(ck.store[ck.last.key]).kind = "json"
    /\ << UpdatedAtKey, isoformat(1) >> \in Val(ck.store[ck.last.key]).text

\* C31: when an attempt of get is answered 401 and the forced refresh succeeds,
\* the loop goes on without sleeping (no time passes, no backoff is counted),
\* the headers of the following attempt hold the token just obtained, which is
\* the manager's current token and not the one the rejected request carried,
\* and attempt has grown by exactly one for the one request sent.
C31_RetryAfter401 ==
    [][ (/\ g.pc = "loop" /\ has_auth
         /\ g'.requests = g.requests + 1
         /\ g'.last.kind = "resp" /\ g'.last.status = 401
         /\ ~is_rate_limited(g'.last.status, g.retry)
         /\ g'.err # "TokenFetchFailed")
        => /\ now' = now /\ g'.sleeps = g.sleeps /\ ~g'.iter_slept
           /\ g'.attempt = g.attempt + 1
           /\ g'.exch401 >= 1
           /\ g'.headers = access_token'
           /\ ~IsNone(g'.headers) /\ g'.headers # g.headers
           /\ g'.pc = "loop" <=> g'.attempt < g'.max_attempts
      ]_vars

\* a 401 on the first attempt was followed by a refresh and the second attempt
\* is about to be sent with the second token
C31_Witness ==
    /\ has_auth /\ g.pc = "loop" /\ g.attempt = 1 /\ g.requests = 1
    /\ g.last.kind = "resp" /\ g.last.status = 401
    /\ g.headers = Some("tokB") /\ access_token = Some("tokB")
    /\ g.sleeps = 0 /\ g.exch401 = 1

\* A request of the current sequence has been sent by the generator
PageRequested == p.gets >= 1 /\ p.pc \in {"fetching", "suspended", "raised"}

\* The cursor token a page hands on: its next_cursor if it has one
HandedOn(next_cursor) == IF TruthyStr(next_cursor) THEN next_cursor ELSE None

\* C32: every request of paginate carries limit = page_size; every request after
\* the first carries as cursor the next_cursor of the page before it, and no
\* cursor at all when that page had none (the sequence going on because of
\* has_more = true).
C32_CursorOfPrecedingPage ==
    PageRequested =>
        /\ p.params_limit = Some(p.page_size)
        /\ p.gets >= 2 => p.params_cursor = HandedOn(p.next_cursor)

\* C33: the first request of a paginate call carries no cursor, whatever params
\* argument the caller passes and whatever sequences came before, and a
\* sequence that is over has left no cursor in the caller's own mapping.
C33_CursorResetPerSequence ==
    /\ (PageRequested /\ p.gets = 1) => IsNone(p.params_cursor)
    /\ p.pc \in {"ended", "raised"} => IsNone(p.caller_cursor)

\* C34: with max_pages = k, an integer >= 0, no request is made once
\* page_count >= k: the generator makes at most k requests (one for k = 0, the
\* test coming after the first page).
C34_MaxPagesBounds ==
    ~IsNone(p.max_pages) =>
        p.gets <= (IF Val(p.max_pages) = 0 THEN 1 ELSE Val(p.max_pages))

\* C35: a call of fetch_weather_data_for_date whose first request is answered
\* by a 4xx status other than 429 makes no further request and returns None;
\* no call makes more than 3 requests, and no call raises a request error
\* (timeout, connection error, HTTP error status).
C35_ClientErrorNotRetried ==
    /\ (fw.first.kind = "resp" /\ PermanentClientError(fw.first))
         => fw.requests = 1 /\ fw.pc = "returned" /\ ~fw.row
    /\ fw.requests <= FetchMaxRetries
    /\ fw.err \notin {"Timeout", "ConnectionError", "HTTPError"}

\* C36: in every state of the client 0 <= error_count <= request_count; the
\* error_rate that get_metrics reports is a quotient between 0 and 1, and it is
\* 0, with nothing divided, when no request has been made.
C36_ErrorsWithinRequests ==
    /\ 0 <= error_count /\ error_count <= request_count
    /\ metrics # NoReport =>
         LET rate == Val(metrics).error_rate
         IN  /\ rate.den > 0
             /\ 0 <= rate.num /\ rate.num <= rate.den
             /\ request_count = 0 => rate.num = 0
             /\ request_count > 0 => rate.num = error_count /\ rate.den = request_count

\* every request made so far failed: the rate reported is 2 / 2
C36_Witness ==
    /\ request_count = 2 /\ error_count = 2
    /\ metrics # NoReport
    /\ Val(metrics).error_rate = [num |-> 2, den |-> 2]

\* get(retry_on_rate_limit = false), seen at the loop of get: one session.get
\* whatever the answer, no sleep, a 429 raised as HTTPError, a timeout raised,
\* a 2xx returned
GetWithoutRetryLoop ==
    (~g.retry /\ g.pc \in {"returned", "raised"} /\ g.requests >= 1) =>
        /\ g.requests = 1 /\ g.sleeps = 0
        /\ (g.last.kind = "resp" /\ g.last.status = 429) => g.err = "HTTPError"
        /\ g.last.kind = "timeout" => g.err = "Timeout"
        /\ (g.last.kind = "resp" /\ g.last.status = 200 /\ g.pc = "returned")
              => g.err = "none"

\* C38: a get call with retry_on_rate_limit = false sends exactly one HTTP
\* request whatever the server answers, and never waits: an answer of 429 is
\* raised as an HTTP error, a 2xx is returned.
C38_SingleRequestWithoutRetry ==
    (wg.called /\ ~wg.retry) =>
        /\ wg.sends = 1 /\ wg.backoffs = 0
        /\ wg.last.status = 429 => wg.pc = "raised" /\ wg.err = "HTTPError"
        /\ wg.last.status = 200 => wg.pc = "returned"

\* C37: for every max_retries, 0 included, a get call that has failed has sent
\* at least one HTTP request, unless it failed in the token exchange made
\* before the first attempt.
C37_FailureAfterRequest ==
    (g.pc = "raised" /\ ~(g.err = "TokenFetchFailed" /\ g.requests = 0))
        => g.requests >= 1

\* C39: a get_secret call that was served from the cache found an entry younger
\* than max_age_seconds, the age being the whole time since the entry was
\* fetched, days included.
C39_NoExpiredCacheHit ==
    (sm.calls >= 1 /\ sm.last.raised = "none" /\ sm.last.backend_calls = 0)
        => sm.last.at - Val(sm.cache[sm.last.name]).fetched_at < sm.last.max_age

\* C40: a get_access_token call whose token exchange failed, whatever the
\* failure (error status, transport error, malformed token response), leaves
\* access_token and token_expires_at as they were; a call changes access_token
\* only together with token_expires_at, in an exchange that succeeded.
C40_FailedExchangeLeavesFields ==
    [][ (tk'.called /\ tk'.exchanges = 1 /\ tk'.raised # "none")
        => access_token' = access_token /\ token_expires_at' = token_expires_at
      ]_vars

====
